---- MODULE Spec2Model ----
(***************************************************************************)
(* A model of react-sse: the shared worker that owns one SSE connection    *)
(* for many clients (src/src/shared-worker.ts), the session handle that    *)
(* projects its notifications (src/src/useSSEWithSharedWorker.ts), the     *)
(* frame decoder of the header-carrying (fetch) transport, and the        *)
(* standalone hook (src/src/useSSE.ts): its state, refs and effects.       *)
(*                                                                         *)
(* JavaScript runs one task at a time, so every handler (a port message,   *)
(* a transport callback, a timer callback, the continuation of an await)   *)
(* is one atomic action.  Text is a sequence of one-character strings.     *)
(*                                                                         *)
(* Specifications:                                                         *)
(*   Spec        the worker under every order of a client's messages       *)
(*   SpecHandle  a page running the hook, another tab connecting before    *)
(*   SpecRetry   one connection left to its transport and its timers       *)
(*   SpecBuffer  more events than the buffer holds                         *)
(*   SpecDecode  a byte stream cut into chunks at any places               *)
(*   SpecUseSSE  a page running useSSE, in any mode                        *)
(*   SpecManual  both hooks mounted with connectionMode 'manual'           *)
(*   SpecLate    three pages on one url, the third mounting last           *)
(*   SpecTabs    two pages attaching and (un)subscribing in any order      *)
(*   SpecShared  two pages, either one commanding the one connection       *)
(***************************************************************************)
EXTENDS Integers, Sequences, FiniteSets, TLC

(* ------------------------------ bounds --------------------------------- *)
\* events decoded in one run of the worker's main specification
MaxEvents == 1
\* transports and retry timers that may be outstanding at once
MaxOutstanding == 2
\* notifications queued on one client's port
MaxPort == 8
\* lines of the byte stream fed to the decoder
MaxLines == 3
\* events pushed in the buffer specification beyond the buffer's capacity
MaxOverflow == 3
\* events the buffer holds when the late page subscribes
MaxBacklog == 3

(* -------------------------- program constants -------------------------- *)
\* const MAX_EVENTS = 100 (handleSSEEvent, and the hook's module constant)
MAX_EVENTS == 100

(* ------------------------------- text ---------------------------------- *)
NL == "\n"
SP == " "
Str_event == <<"e", "v", "e", "n", "t", ":">>
Str_data == <<"d", "a", "t", "a", ":">>
Str_id == <<"i", "d", ":">>
Str_message == <<"m", "e", "s", "s", "a", "g", "e">>

\* String.prototype.startsWith
StartsWith(s, p) == Len(s) >= Len(p) /\ SubSeq(s, 1, Len(p)) = p

\* String.prototype.substring(n)
Substring(s, n) == SubSeq(s, n + 1, Len(s))

RECURSIVE TrimStart(_)
TrimStart(s) == IF s # <<>> /\ Head(s) \in {SP, NL} THEN TrimStart(Tail(s)) ELSE s

RECURSIVE TrimEnd(_)
TrimEnd(s) ==
    IF s # <<>> /\ s[Len(s)] \in {SP, NL} THEN TrimEnd(SubSeq(s, 1, Len(s) - 1)) ELSE s

\* String.prototype.trim
Trim(s) == TrimEnd(TrimStart(s))

\* String.prototype.split('\n'): the pieces between the newlines, always at
\* least one piece; the last piece is the text after the last newline
RECURSIVE SplitFrom(_, _)
SplitFrom(s, cur) ==
    IF s = <<>> THEN <<cur>>
    ELSE IF Head(s) = NL THEN <<cur>> \o SplitFrom(Tail(s), <<>>)
    ELSE SplitFrom(Tail(s), Append(cur, Head(s)))

Split(s) == SplitFrom(s, <<>>)

Digits == {"0", "1", "2", "3", "4", "5", "6", "7", "8", "9"}

\* JSON.parse succeeds: over the alphabet of the modelled streams (letters
\* of the field names, digits, space, newline) the only JSON texts are
\* unsigned integer literals
IsJson(s) ==
    /\ s # <<>>
    /\ \A i \in 1..Len(s) : s[i] \in Digits
    /\ (Len(s) > 1 => s[1] # "0")

\* the event's data: the parsed value when JSON.parse succeeds, else the raw text
ParseData(s) == [json |-> IsJson(s), text |-> s]

Undefined == [def |-> FALSE, s |-> <<>>]
Defined(s) == [def |-> TRUE, s |-> s]


(* ---------------------------- frame decoder ---------------------------- *)
\* the for-loop over the complete lines of one read (shared-worker.ts
\* 268-276, useSSE.ts 263-271): acc is (eventType, eventData, eventId)
RECURSIVE ScanLines(_, _)
ScanLines(lines, acc) ==
    IF lines = <<>> THEN acc
    ELSE LET line == Head(lines)
             next ==
                 IF StartsWith(line, Str_event)
                 THEN [acc EXCEPT !.type = Trim(Substring(line, 6))]
                 ELSE IF StartsWith(line, Str_data)
                 THEN [acc EXCEPT !.data =
                          acc.data \o (IF acc.data # <<>> THEN <<NL>> ELSE <<>>)
                                   \o Trim(Substring(line, 5))]
                 ELSE IF StartsWith(line, Str_id)
                 THEN [acc EXCEPT !.id = Defined(Trim(Substring(line, 3)))]
                 ELSE acc
         IN  ScanLines(Tail(lines), next)

\* one pass of the read loop over one chunk: the text that stays buffered,
\* and the event the pass emits (emit = FALSE: eventData is empty)
DecodePass(buffer, chunk) ==
    LET text == buffer \o chunk
        pieces == Split(text)
        lines == SubSeq(pieces, 1, Len(pieces) - 1)
        acc == ScanLines(lines, [type |-> Str_message, data |-> <<>>, id |-> Undefined])
    IN  [buffer |-> pieces[Len(pieces)],
         emit |-> acc.data # <<>>,
         type |-> acc.type,
         data |-> ParseData(acc.data),
         id |-> acc.id]

(* ------------------------------- values -------------------------------- *)
Clients == {"c1", "c2", "c3"}
Urls == {"u1", "u2"}

NoEvent == [type |-> <<>>, data |-> ParseData(<<>>), id |-> Undefined, timestamp |-> 0]
NoError == [name |-> "", message |-> ""]
Err(name, message) == [name |-> name, message |-> message]

\* SSEOptions with the defaults of the destructuring applied; headers is
\* whether Object.keys(headers).length > 0, retryDelayFn names the custom
\* function ("none": not given)
DefaultMaxRetries == 5
DefaultMaxRetryDelay == 30000
DefaultInitialRetryDelay == 1000
JitterRange == 1000

Options(headers, autoReconnect, maxRetries, initialRetryDelay, maxRetryDelay, retryDelayFn) ==
    [headers |-> headers, autoReconnect |-> autoReconnect, maxRetries |-> maxRetries,
     initialRetryDelay |-> initialRetryDelay, maxRetryDelay |-> maxRetryDelay,
     retryDelayFn |-> retryDelayFn]

NoOptions == Options(FALSE, FALSE, 0, 0, 0, "none")

\* the caller-supplied retryDelayFn's of the README and the examples
\* ("linear": attempt => attempt * 2000) and one that ignores the ceiling
CustomDelay(fn, attempt) ==
    IF fn = "linear" THEN attempt * 2000
    ELSE IF fn = "huge" THEN 90000 + attempt
    ELSE 0

\* currentConnection = null
NoConnection ==
    [url |-> "", options |-> NoOptions, status |-> "", events |-> <<>>,
     lastEvent |-> NoEvent, error |-> NoError, retryCount |-> 0]

\* eventSource = null
NoEventSource == [readyState |-> "null", url |-> "", options |-> NoOptions]

\* a slot of fetchTasks with no request in it
NoTask == [phase |-> "none", url |-> "", options |-> NoOptions, buffer |-> <<>>]

\* WorkerResponse (worker-types.ts 16-22), every field present so that any
\* two notifications compare
Msg(type, status, event, error, count, url) ==
    [type |-> type, status |-> status, event |-> event, error |-> error,
     count |-> count, url |-> url]
MsgStatus(status) == Msg("STATUS", status, NoEvent, NoError, 0, "")
MsgEvent(event) == Msg("EVENT", "", event, NoError, 0, "")
MsgError(error) == Msg("ERROR", "", NoEvent, error, 0, "")
MsgRetryCount(count) == Msg("RETRY_COUNT", "", NoEvent, NoError, count, "")
MsgConnected(url) == Msg("CONNECTED", "", NoEvent, NoError, 0, url)
MsgDisconnected == Msg("DISCONNECTED", "", NoEvent, NoError, 0, "")

(* ------------------------------- state --------------------------------- *)
VARIABLES
    \* SSESharedWorker's fields
    clients,            \* Map clientId -> subscribed; its domain is the registry
    currentConnection,  \* the connection record, or NoConnection
    eventSource,        \* the EventSource (its readyState), or NoEventSource
    fetchTasks,         \* the connectWithFetch calls that have not returned
    fetchController,    \* 0: null; k: the controller of the request in slot k;
                        \* -1: the controller of a request that has ended
    retryTimeout,       \* "null", "pending" (handle of a pending timer) or
                        \* "done" (handle of a timer that has fired)
    pendingTimers,      \* the delays of the retry timers that are pending, in
                        \* the order they were set; retryTimeout = "pending"
                        \* refers to the last one
    retryAttempt,
    \* the environment
    clock,              \* Date.now(): one tick per decoded event
    stream,             \* the bytes the server sends on the fetch transport
    \* each client: its port and the state of its useSSEWithSharedWorker handle
    port,               \* notifications posted to the client, not yet handled
    hook,               \* status, lastEvent, events, error, retryCount
    pc,                 \* where the client's page is in the life of its hook
    \* a page that uses useSSE instead
    sse,                \* the state and the refs of its hook
    \* history
    subSnap,            \* per client, the buffer at its latest SUBSCRIBE and how
                        \* many EVENTs it had been sent before
    attemptLog,         \* the delays of the retries started since the last
                        \* CONNECT, RECONNECT, DISCONNECT or opened transport
    pushCount           \* events pushed since the buffer was last emptied

workerVars ==
    <<clients, currentConnection, eventSource, fetchTasks, fetchController,
      retryTimeout, pendingTimers, retryAttempt, clock, port>>
histVars == <<subSnap, attemptLog, pushCount>>
clientVars == <<hook, pc>>
vars == <<workerVars, stream, clientVars, histVars, sse>>

Slots == 1..MaxOutstanding

\* the worker's state as one value, for the methods below to transform:
\* aborted is the slot whose request this handler has aborted (0: none) and
\* ok is false when the handler needs a slot the model does not have
Cur ==
    [clients |-> clients, currentConnection |-> currentConnection,
     eventSource |-> eventSource, fetchTasks |-> fetchTasks,
     fetchController |-> fetchController, retryTimeout |-> retryTimeout,
     pendingTimers |-> pendingTimers,
     retryAttempt |-> retryAttempt, clock |-> clock, port |-> port,
     aborted |-> 0, ok |-> TRUE]

HasConnection(W) == W.currentConnection # NoConnection

(* --------------------------- SSESharedWorker --------------------------- *)
\* sendToClient, several responses in order
sendToClient(W, clientId, responses) ==
    IF clientId \in DOMAIN W.clients
    THEN [W EXCEPT !.port[clientId] = @ \o responses]
    ELSE W

broadcast_toEveryClient(W, responses) ==
    [W EXCEPT !.port =
        [c \in Clients |->
            IF c \in DOMAIN W.clients
            THEN W.port[c] \o responses ELSE W.port[c]]]

\* broadcast, several responses in order: the subscribed flags do not
\* change between the broadcasts of one handler
broadcast(W, responses) ==
    [W EXCEPT !.port =
        [c \in Clients |->
            IF c \in DOMAIN W.clients /\ W.clients[c]
            THEN W.port[c] \o responses ELSE W.port[c]]]

RECURSIVE Pow2(_)
Pow2(n) == IF n = 0 THEN 1 ELSE 2 * Pow2(n - 1)

Min(a, b) == IF a <= b THEN a ELSE b

\* calculateRetryDelay trusting the caller's function with the ceiling
calculateRetryDelay_trusting(attempt, initialDelay, maxDelay, customFn, jitter) ==
    IF customFn # "none"
    THEN CustomDelay(customFn, attempt)
    ELSE Min(initialDelay * Pow2(attempt) + jitter, maxDelay)

\* calculateRetryDelay; jitter is Math.random() * 1000
calculateRetryDelay(attempt, initialDelay, maxDelay, customFn, jitter) ==
    IF customFn # "none"
    THEN Min(CustomDelay(customFn, attempt), maxDelay)
    ELSE Min(initialDelay * Pow2(attempt) + jitter, maxDelay)

\* useSSE's calculateRetryDelay (useSSE.ts 63-72)
useSSE_calculateRetryDelay(attempt, initialRetryDelay, maxRetryDelay, retryDelayFn, jitter) ==
    IF retryDelayFn # "none"
    THEN Min(CustomDelay(retryDelayFn, attempt), maxRetryDelay)
    ELSE LET baseDelay == initialRetryDelay * Pow2(attempt)
         IN  Min(baseDelay + jitter, maxRetryDelay)

\* the push with a slice that keeps one event too many
PushEvent_offByOne(events, event) ==
    LET pushed == Append(events, event)
    IN  IF Len(pushed) > MAX_EVENTS + 1
        THEN SubSeq(pushed, Len(pushed) - MAX_EVENTS, Len(pushed))
        ELSE pushed

\* events.push(event) and the slice(-MAX_EVENTS)
PushEvent(events, event) ==
    LET pushed == Append(events, event)
    IN  IF Len(pushed) > MAX_EVENTS
        THEN SubSeq(pushed, Len(pushed) - MAX_EVENTS + 1, Len(pushed))
        ELSE pushed

handleSSEEvent(W, event) ==
    LET W1 == IF HasConnection(W)
              THEN [W EXCEPT !.currentConnection.lastEvent = event,
                             !.currentConnection.events = PushEvent(@, event)]
              ELSE W
    IN  broadcast(W1, <<MsgEvent(event)>>)

\* handleError passing the one-based retryAttempt to calculateRetryDelay
handleError_oneBased(W, error, options, jitter) ==
    LET W1 == IF HasConnection(W)
              THEN [W EXCEPT !.currentConnection.error = error,
                             !.currentConnection.status = "error"]
              ELSE W
        W2 == broadcast(W1, <<MsgError(error), MsgStatus("error")>>)
    IN  IF options.autoReconnect /\ W2.retryAttempt < options.maxRetries /\ HasConnection(W2)
        THEN LET n == W2.retryAttempt + 1
                 W3 == [W2 EXCEPT !.retryAttempt = n,
                                  !.currentConnection.retryCount = n]
                 W4 == broadcast(W3, <<MsgRetryCount(n)>>)
                 delay == calculateRetryDelay(n, options.initialRetryDelay,
                              options.maxRetryDelay, options.retryDelayFn, jitter)
             IN  [W4 EXCEPT !.retryTimeout = "pending",
                            !.pendingTimers = Append(@, delay)]
        ELSE LET W3 == IF HasConnection(W2)
                       THEN [W2 EXCEPT !.currentConnection.status = "disconnected"]
                       ELSE W2
             IN  broadcast(W3, <<MsgStatus("disconnected")>>)

\* handleError comparing retryAttempt with maxRetries by <=
handleError_oneMore(W, error, options, jitter) ==
    LET W1 == IF HasConnection(W)
              THEN [W EXCEPT !.currentConnection.error = error,
                             !.currentConnection.status = "error"]
              ELSE W
        W2 == broadcast(W1, <<MsgError(error), MsgStatus("error")>>)
    IN  IF options.autoReconnect /\ W2.retryAttempt <= options.maxRetries /\ HasConnection(W2)
        THEN LET n == W2.retryAttempt + 1
                 W3 == [W2 EXCEPT !.retryAttempt = n,
                                  !.currentConnection.retryCount = n]
                 W4 == broadcast(W3, <<MsgRetryCount(n)>>)
                 delay == calculateRetryDelay(n - 1, options.initialRetryDelay,
                              options.maxRetryDelay, options.retryDelayFn, jitter)
             IN  [W4 EXCEPT !.retryTimeout = "pending",
                            !.pendingTimers = Append(@, delay)]
        ELSE LET W3 == IF HasConnection(W2)
                       THEN [W2 EXCEPT !.currentConnection.status = "disconnected"]
                       ELSE W2
             IN  broadcast(W3, <<MsgStatus("disconnected")>>)

\* handleError (414-467)
handleError(W, error, options, jitter) ==
    LET W1 == IF HasConnection(W)
              THEN [W EXCEPT !.currentConnection.error = error,
                             !.currentConnection.status = "error"]
              ELSE W
        W2 == broadcast(W1, <<MsgError(error), MsgStatus("error")>>)
    IN  IF options.autoReconnect /\ W2.retryAttempt < options.maxRetries /\ HasConnection(W2)
        THEN LET n == W2.retryAttempt + 1
                 W3 == [W2 EXCEPT !.retryAttempt = n,
                                  !.currentConnection.retryCount = n]
                 W4 == broadcast(W3, <<MsgRetryCount(n)>>)
                 delay == calculateRetryDelay(n - 1, options.initialRetryDelay,
                              options.maxRetryDelay, options.retryDelayFn, jitter)
             IN  [W4 EXCEPT !.retryTimeout = "pending",
                            !.pendingTimers = Append(@, delay)]
        ELSE LET W3 == IF HasConnection(W2)
                       THEN [W2 EXCEPT !.currentConnection.status = "disconnected"]
                       ELSE W2
             IN  broadcast(W3, <<MsgStatus("disconnected")>>)

\* connectWithFetch up to its first await (178-213): the request is in flight
connectWithFetch(W, url, options) ==
    LET W1 == IF HasConnection(W)
              THEN broadcast([W EXCEPT !.currentConnection.status = "connecting"],
                             <<MsgStatus("connecting")>>)
              ELSE W
        free == {k \in Slots : W1.fetchTasks[k] = NoTask}
    IN  IF free = {} THEN [W1 EXCEPT !.ok = FALSE]
        ELSE LET k == CHOOSE x \in free : \A y \in free : x <= y
             IN  [W1 EXCEPT !.fetchController = k,
                            !.fetchTasks[k] = [phase |-> "fetching", url |-> url,
                                               options |-> options, buffer |-> <<>>]]

\* connectWithEventSource (335-351): the handlers are the ES actions below
connectWithEventSource(W, url, options) ==
    [W EXCEPT !.eventSource = [readyState |-> "CONNECTING", url |-> url, options |-> options]]

establishConnection(W, url, options) ==
    IF options.headers
    THEN connectWithFetch(W, url, options)
    ELSE connectWithEventSource(W, url, options)

disconnect(W) ==
    LET W1 == IF W.retryTimeout # "null"
              THEN [W EXCEPT !.retryTimeout = "null",
                             !.pendingTimers = IF W.retryTimeout = "pending"
                                               THEN SubSeq(@, 1, Len(@) - 1) ELSE @]
              ELSE W
        W2 == IF W1.fetchController # 0
              THEN [W1 EXCEPT !.fetchController = 0,
                              !.aborted = IF W1.fetchController \in Slots
                                          THEN W1.fetchController ELSE @]
              ELSE W1
        W3 == [W2 EXCEPT !.eventSource = NoEventSource]
        W4 == IF HasConnection(W3)
              THEN [W3 EXCEPT !.currentConnection.status = "disconnected",
                              !.currentConnection.events = <<>>,
                              !.currentConnection.lastEvent = NoEvent,
                              !.currentConnection.error = NoError,
                              !.currentConnection.retryCount = 0]
              ELSE W3
        W5 == [W4 EXCEPT !.retryAttempt = 0]
    IN  broadcast(W5, <<MsgDisconnected, MsgStatus("disconnected")>>)

connect_alwaysFresh(W, url, options) ==
    LET W1 == disconnect(W)
        W2 == [W1 EXCEPT !.currentConnection =
                   [url |-> url, options |-> options, status |-> "connecting",
                    events |-> <<>>, lastEvent |-> NoEvent, error |-> NoError,
                    retryCount |-> 0]]
        W3 == broadcast(W2, <<MsgConnected(url), MsgStatus("connecting")>>)
    IN  establishConnection(W3, url, options)

connect(W, url, options) ==
    IF HasConnection(W) /\ W.currentConnection.url = url
    THEN broadcast(W, <<MsgConnected(url), MsgStatus(W.currentConnection.status)>>)
    ELSE LET W1 == disconnect(W)
             W2 == [W1 EXCEPT !.currentConnection =
                        [url |-> url, options |-> options, status |-> "connecting",
                         events |-> <<>>, lastEvent |-> NoEvent, error |-> NoError,
                         retryCount |-> 0]]
             W3 == broadcast(W2, <<MsgConnected(url), MsgStatus("connecting")>>)
         IN  establishConnection(W3, url, options)

reconnect(W) ==
    LET W1 == [W EXCEPT !.retryAttempt = 0]
    IN  IF HasConnection(W1)
        THEN LET W2 == [W1 EXCEPT !.currentConnection.retryCount = 0,
                                  !.currentConnection.error = NoError,
                                  !.currentConnection.events = <<>>,
                                  !.currentConnection.lastEvent = NoEvent]
                 W3 == disconnect(W2)
             IN  establishConnection(W3, W3.currentConnection.url,
                                     W3.currentConnection.options)
        ELSE W1

handleConnect_statusFirst(W, clientId) ==
    LET W1 == [W EXCEPT !.clients =
                   [c \in DOMAIN W.clients \cup {clientId} |->
                       IF c = clientId THEN FALSE ELSE W.clients[c]]]
    IN  IF HasConnection(W1)
        THEN sendToClient(W1, clientId,
                 <<MsgStatus(W1.currentConnection.status),
                   MsgConnected(W1.currentConnection.url),
                   MsgRetryCount(W1.currentConnection.retryCount)>>
                 \o (IF W1.currentConnection.lastEvent # NoEvent
                     THEN <<MsgEvent(W1.currentConnection.lastEvent)>> ELSE <<>>))
        ELSE W1

handleConnect(W, clientId) ==
    LET W1 == [W EXCEPT !.clients =
                   [c \in DOMAIN W.clients \cup {clientId} |->
                       IF c = clientId THEN FALSE ELSE W.clients[c]]]
    IN  IF HasConnection(W1)
        THEN sendToClient(W1, clientId,
                 <<MsgConnected(W1.currentConnection.url),
                   MsgStatus(W1.currentConnection.status),
                   MsgRetryCount(W1.currentConnection.retryCount)>>
                 \o (IF W1.currentConnection.lastEvent # NoEvent
                     THEN <<MsgEvent(W1.currentConnection.lastEvent)>> ELSE <<>>))
        ELSE W1

subscribeClient(W, clientId) ==
    IF clientId \in DOMAIN W.clients
    THEN LET W1 == [W EXCEPT !.clients[clientId] = TRUE]
         IN  IF HasConnection(W1)
             THEN sendToClient(W1, clientId,
                      <<MsgStatus(W1.currentConnection.status),
                        MsgRetryCount(W1.currentConnection.retryCount)>>
                      \o [i \in 1..Len(W1.currentConnection.events) |->
                             MsgEvent(W1.currentConnection.events[i])])
             ELSE W1
    ELSE W

unsubscribeClient(W, clientId) ==
    IF clientId \in DOMAIN W.clients
    THEN [W EXCEPT !.clients[clientId] = FALSE]
    ELSE W

(* ----------------- the continuations of connectWithFetch ---------------- *)
\* the request in slot k has returned: its slot is free, and a controller
\* that is still this.fetchController now belongs to a finished request
EndTask(W, k) ==
    [W EXCEPT !.fetchTasks[k] = NoTask,
              !.fetchController = IF @ = k THEN -1 ELSE @]

fetchOpened_keepsAttempt(W, k) ==
    LET W1 == IF HasConnection(W)
              THEN [W EXCEPT !.currentConnection.status = "connected",
                             !.currentConnection.retryCount = 0]
              ELSE W
        W2 == broadcast(W1, <<MsgStatus("connected"), MsgRetryCount(0)>>)
    IN  [W2 EXCEPT !.fetchTasks[k].phase = "reading"]

\* await fetch resolved with an ok response that has a body (229-240)
fetchOpened(W, k) ==
    LET W1 == IF HasConnection(W)
              THEN [W EXCEPT !.currentConnection.status = "connected",
                             !.currentConnection.retryCount = 0,
                             !.retryAttempt = 0]
              ELSE W
        W2 == broadcast(W1, <<MsgStatus("connected"), MsgRetryCount(0)>>)
    IN  [W2 EXCEPT !.fetchTasks[k].phase = "reading"]

\* the catch without its AuthenticationError branch
fetchCatch_retries401(W, k, error, jitter) ==
    handleError(EndTask(W, k), error, W.fetchTasks[k].options, jitter)

\* the catch of connectWithFetch (309-332) for an error that is no AbortError
fetchCatch(W, k, error, jitter) ==
    LET options == W.fetchTasks[k].options
        W1 == EndTask(W, k)
    IN  IF error.name = "AuthenticationError"
        THEN LET W2 == IF HasConnection(W1)
                       THEN [W1 EXCEPT !.currentConnection.status = "disconnected",
                                       !.currentConnection.events = <<>>,
                                       !.currentConnection.lastEvent = NoEvent]
                       ELSE W1
             IN  broadcast(W2, <<MsgStatus("disconnected"), MsgError(error)>>)
        ELSE handleError(W1, error, options, jitter)

\* reader.read() resolved with a chunk (259-299)
readChunk(W, k, chunk) ==
    LET d == DecodePass(W.fetchTasks[k].buffer, chunk)
        W1 == [W EXCEPT !.fetchTasks[k].buffer = d.buffer]
    IN  IF d.emit /\ HasConnection(W1)
        THEN handleSSEEvent([W1 EXCEPT !.clock = @ + 1],
                 [type |-> d.type, data |-> d.data, id |-> d.id, timestamp |-> W1.clock + 1])
        ELSE W1

\* what the aborted request does once the handler that aborted it has
\* returned: a pending fetch() rejects with an AbortError, which the catch
\* swallows (310-312); a pending reader.read() rejects too, and the read
\* loop replaces that rejection by a plain Error (245-250), which the catch
\* hands to handleError
abortSettled(W, jitter) ==
    IF W.aborted = 0 THEN W
    ELSE LET k == W.aborted
             task == W.fetchTasks[k]
             W1 == [W EXCEPT !.aborted = 0, !.fetchTasks[k] = NoTask]
         IN  IF task.phase = "fetching" THEN W1
             ELSE handleError(W1, Err("Error", "Connection lost while reading stream"),
                              task.options, jitter)

(* ----------------------- the EventSource handlers ---------------------- *)
\* eventSource.onopen (353-361)
esOnOpen(W) ==
    LET W1 == IF HasConnection(W)
              THEN [W EXCEPT !.currentConnection.status = "connected",
                             !.currentConnection.retryCount = 0,
                             !.retryAttempt = 0]
              ELSE W
        W2 == [W1 EXCEPT !.eventSource.readyState = "OPEN"]
    IN  broadcast(W2, <<MsgStatus("connected"), MsgRetryCount(0)>>)

\* eventSource.onmessage (363-382)
esOnMessage(W, data, lastEventId) ==
    handleSSEEvent([W EXCEPT !.clock = @ + 1],
        [type |-> Str_message, data |-> ParseData(data),
         id |-> IF lastEventId # <<>> THEN Defined(lastEventId) ELSE Undefined,
         timestamp |-> W.clock + 1])

\* eventSource.onerror (384-396): closed is whether the browser has given
\* the connection up (readyState CLOSED); otherwise it is reconnecting by
\* itself (readyState CONNECTING) and the handler does nothing
esOnError(W, closed, jitter) ==
    IF closed
    THEN handleError([W EXCEPT !.eventSource = NoEventSource],
                     Err("Error", "SSE connection error"), W.eventSource.options, jitter)
    ELSE [W EXCEPT !.eventSource.readyState = "CONNECTING"]

\* the callback of the retry timer (453-460)
retryTimerFired(W) ==
    IF HasConnection(W)
    THEN establishConnection(W, W.currentConnection.url, W.currentConnection.options)
    ELSE W

(* ------------------------------- useSSE -------------------------------- *)
\* the state of a useSSE hook that the catch of its connectWithFetch
\* touches: the React state and the refs; timers holds the delays of the
\* retry timers it has set
useSSE_State(status, events, lastEvent, attempt) ==
    [status |-> status, events |-> events, lastEvent |-> lastEvent, error |-> NoError,
     retryCount |-> attempt, retryAttempt |-> attempt, timers |-> <<>>]

\* the catch of useSSE's connectWithFetch (useSSE.ts 311-349); the hook's
\* shouldReconnectRef holds options.autoReconnect
useSSE_fetchCatch(h, error, options, isCleaningUp, jitter) ==
    IF error.name \in {"AbortError", "AbortException"} THEN h
    ELSE IF isCleaningUp THEN h
    ELSE LET h1 == [h EXCEPT !.error = error, !.status = "error"]
         IN  IF error.name = "AuthenticationError"
             THEN [h1 EXCEPT !.status = "disconnected", !.events = <<>>,
                             !.lastEvent = NoEvent]
             ELSE IF options.autoReconnect /\ h1.retryAttempt < options.maxRetries
             THEN LET n == h1.retryAttempt + 1
                      delay == useSSE_calculateRetryDelay(n - 1, options.initialRetryDelay,
                                   options.maxRetryDelay, options.retryDelayFn, jitter)
                  IN  [h1 EXCEPT !.retryAttempt = n, !.retryCount = n,
                                 !.timers = Append(@, delay)]
             ELSE [h1 EXCEPT !.status = "disconnected", !.events = <<>>,
                             !.lastEvent = NoEvent]

\* the props of a useSSE hook: its url is set, and options is the same
\* object at every render
Props(connectionMode, autoConnectDelay, options) ==
    [connectionMode |-> connectionMode, autoConnectDelay |-> autoConnectDelay,
     options |-> options]

\* useSSE at its first render (useSSE.ts 38-51): the React state and the
\* refs.  eventSource is the readyState of eventSourceRef's EventSource,
\* fetch the position of the effect's connectWithFetch; connectCalled is
\* whether connect() has been called
useSSE_FirstRender(props) ==
    [status |-> "disconnected", lastEvent |-> NoEvent, events |-> <<>>,
     error |-> NoError, retryCount |-> 0,
     shouldConnect |-> (props.connectionMode = "auto"),
     eventSource |-> "null", retryTimeout |-> "null", timers |-> <<>>,
     autoConnectTimeout |-> "null", retryAttempt |-> 0,
     shouldReconnect |-> props.options.autoReconnect,
     fetch |-> "none", buffer |-> <<>>, clock |-> 0,
     props |-> props, mounted |-> TRUE, connectCalled |-> FALSE]

\* cleanup (75-88)
useSSE_cleanup(h) ==
    [h EXCEPT !.eventSource = "null",
              !.timers = IF h.retryTimeout = "pending"
                         THEN SubSeq(@, 1, Len(@) - 1) ELSE @,
              !.retryTimeout = "null",
              !.autoConnectTimeout = "null"]

\* the effect's connectWithFetch up to its first await (186-209)
useSSE_connectWithFetch(h) ==
    [h EXCEPT !.status = "connecting", !.error = NoError,
              !.fetch = "fetching", !.buffer = <<>>]

\* the body of the connect effect (161-175, 352, 370-380) for a url that
\* is set: shouldConnect is the state of the render the effect belongs to
useSSE_connectEffect(h, shouldConnect) ==
    IF ~shouldConnect THEN h
    ELSE IF h.props.options.headers THEN useSSE_connectWithFetch(h)
    ELSE [h EXCEPT !.status = "connecting", !.error = NoError,
                   !.eventSource = "CONNECTING"]

\* the function the connect effect returned (354-368, 477-479): the
\* aborted request ends in silence, isCleaningUp being set
useSSE_effectCleanup(h) ==
    IF h.props.options.headers
    THEN [useSSE_cleanup(h) EXCEPT !.fetch = "none", !.buffer = <<>>,
                                   !.events = <<>>, !.lastEvent = NoEvent]
    ELSE useSSE_cleanup(h)

\* the render after a handler that took the state from old to h: the
\* connect effect runs again when shouldConnect has changed, its cleanup
\* first when the render before had connected
useSSE_commit(old, h) ==
    IF h.shouldConnect = old.shouldConnect THEN h
    ELSE useSSE_connectEffect(IF old.shouldConnect THEN useSSE_effectCleanup(h) ELSE h,
                              h.shouldConnect)

\* the auto-connect effect (126-158)
useSSE_autoConnectEffect(h) ==
    IF h.props.connectionMode = "manual" THEN h
    ELSE IF h.props.autoConnectDelay > 0
    THEN [h EXCEPT !.autoConnectTimeout = "pending"]
    ELSE [h EXCEPT !.shouldConnect = TRUE, !.status = "connecting"]

\* setLastEvent and setEvents (283-290, 396-403)
useSSE_pushEvent(h, type, data, id) ==
    LET event == [type |-> type, data |-> data, id |-> id, timestamp |-> h.clock + 1]
    IN  [h EXCEPT !.clock = @ + 1, !.lastEvent = event,
                  !.events = PushEvent(@, event)]

\* connectWithFetch throws an error that is no AbortError while the effect
\* is live (311-349)
useSSE_fetchFailed(h, error, jitter) ==
    LET h1 == useSSE_fetchCatch([h EXCEPT !.fetch = "none", !.buffer = <<>>], error,
                  [h.props.options EXCEPT !.autoReconnect = h.shouldReconnect],
                  FALSE, jitter)
    IN  IF Len(h1.timers) > Len(h.timers)
        THEN [h1 EXCEPT !.retryTimeout = "pending"] ELSE h1

\* eventSource.onerror (424-450): closed is whether readyState is CLOSED
useSSE_esOnError(h, closed, jitter) ==
    LET options == h.props.options
        h1 == [h EXCEPT !.error = Err("Error", "SSE connection error"),
                        !.eventSource = IF closed THEN "CLOSED" ELSE "CONNECTING"]
    IN  IF ~closed THEN h1
        ELSE IF h1.shouldReconnect /\ h1.retryAttempt < options.maxRetries
        THEN LET n == h1.retryAttempt + 1
                 delay == useSSE_calculateRetryDelay(n - 1, options.initialRetryDelay,
                              options.maxRetryDelay, options.retryDelayFn, jitter)
             IN  [h1 EXCEPT !.status = "error", !.retryAttempt = n, !.retryCount = n,
                            !.retryTimeout = "pending", !.timers = Append(@, delay)]
        ELSE [h1 EXCEPT !.status = "disconnected", !.events = <<>>,
                        !.lastEvent = NoEvent]

\* the transports of the hook that are live
useSSE_transports(h) ==
    (IF h.fetch # "none" THEN 1 ELSE 0)
        + (IF h.eventSource \in {"CONNECTING", "OPEN"} THEN 1 ELSE 0)

(* ------------------- useSSEWithSharedWorker's handle ------------------- *)
HookInit ==
    [status |-> "disconnected", lastEvent |-> NoEvent, events |-> <<>>,
     error |-> NoError, retryCount |-> 0]

\* port.onmessage (72-110)
onmessage(h, message) ==
    IF message.type = "STATUS" THEN [h EXCEPT !.status = message.status]
    ELSE IF message.type = "EVENT"
    THEN [h EXCEPT !.lastEvent = message.event, !.events = PushEvent(@, message.event)]
    ELSE IF message.type = "ERROR" THEN [h EXCEPT !.error = message.error]
    ELSE IF message.type = "RETRY_COUNT" THEN [h EXCEPT !.retryCount = message.count]
    ELSE IF message.type = "DISCONNECTED" THEN [h EXCEPT !.status = "disconnected"]
    ELSE h

(* ------------------------------- actions ------------------------------- *)
\* the EVENT notifications in a sequence of notifications
RECURSIVE EventsOf(_)
EventsOf(q) ==
    IF q = <<>> THEN <<>>
    ELSE (IF Head(q).type = "EVENT" THEN <<Head(q).event>> ELSE <<>>) \o EventsOf(Tail(q))

\* the worker's state after a handler; the model's bounds are its guards
Apply(W) ==
    /\ W.ok
    /\ \A c \in Clients : Len(W.port[c]) <= MaxPort
    /\ Len(W.pendingTimers) + Cardinality({k \in Slots : W.fetchTasks[k] # NoTask})
         + (IF W.eventSource # NoEventSource THEN 1 ELSE 0) <= MaxOutstanding
    /\ clients' = W.clients
    /\ currentConnection' = W.currentConnection
    /\ eventSource' = W.eventSource
    /\ fetchTasks' = W.fetchTasks
    /\ fetchController' = W.fetchController
    /\ retryTimeout' = W.retryTimeout
    /\ pendingTimers' = W.pendingTimers
    /\ retryAttempt' = W.retryAttempt
    /\ clock' = W.clock
    /\ port' = W.port

\* Every port has been read.  A client's port.onmessage reads no state of
\* the worker and the worker reads no state of a client, so the two kinds
\* of step commute; the one step that does not commute with port.onmessage
\* is the handle's own close().  The model therefore lets the clients read
\* their ports before the worker's next task, and lets close() run at any
\* point of that reading.
Quiet == \A c \in Clients : port[c] = <<>>

\* self.onconnect: a new client's port reaches the worker
Attach(c) ==
    /\ Quiet
    /\ c \notin DOMAIN clients
    /\ Apply(handleConnect(Cur, c))
    /\ UNCHANGED <<sse, stream, clientVars, histVars>>

\* handleMessage, case 'SUBSCRIBE'
Subscribe(c) ==
    /\ Quiet
    /\ c \in DOMAIN clients
    /\ ~clients[c]
    /\ Apply(subscribeClient(Cur, c))
    /\ UNCHANGED <<sse, stream, clientVars, histVars>>

\* handleMessage, case 'UNSUBSCRIBE'
Unsubscribe(c) ==
    /\ Quiet
    /\ c \in DOMAIN clients
    /\ clients[c]
    /\ Apply(unsubscribeClient(Cur, c))
    /\ UNCHANGED <<sse, stream, clientVars, histVars>>

\* handleMessage, case 'CONNECT'
Connect(c, url, options, jitter) ==
    /\ Quiet
    /\ c \in DOMAIN clients
    /\ Apply(abortSettled(connect(Cur, url, options), jitter))
    /\ IF HasConnection(Cur) /\ currentConnection.url = url
       THEN UNCHANGED <<attemptLog, pushCount>>
       ELSE attemptLog' = <<>> /\ pushCount' = 0
    /\ UNCHANGED <<sse, stream, clientVars, subSnap>>

\* handleMessage, case 'DISCONNECT'
Disconnect(c, jitter) ==
    /\ Quiet
    /\ c \in DOMAIN clients
    /\ Apply(abortSettled(disconnect(Cur), jitter))
    /\ attemptLog' = <<>>
    /\ pushCount' = 0
    /\ UNCHANGED <<sse, stream, clientVars, subSnap>>

\* handleMessage, case 'RECONNECT'
Reconnect(c, jitter) ==
    /\ Quiet
    /\ c \in DOMAIN clients
    /\ Apply(abortSettled(reconnect(Cur), jitter))
    /\ attemptLog' = <<>>
    /\ pushCount' = 0
    /\ UNCHANGED <<sse, stream, clientVars, subSnap>>

\* a client whose state the specification does not follow takes the
\* oldest notification from its port
Deliver(c) ==
    /\ port[c] # <<>>
    /\ port' = [port EXCEPT ![c] = Tail(@)]
    /\ UNCHANGED <<clients, currentConnection, eventSource, fetchTasks, fetchController,
                   retryTimeout, pendingTimers, retryAttempt, clock, sse, stream, clientVars,
                   histVars>>

\* the response of the request in slot k arrives: ok with a body
FetchOpened(k) ==
    /\ Quiet
    /\ fetchTasks[k].phase = "fetching"
    /\ Apply(fetchOpened(Cur, k))
    /\ attemptLog' = <<>>
    /\ UNCHANGED <<sse, stream, clientVars, subSnap, pushCount>>

AuthenticationError == Err("AuthenticationError", "Authentication failed! status: 401")
HttpErrors == {AuthenticationError, Err("Error", "HTTP error! status: 500")}

\* the request in slot k fails: fetch() rejects, or the status is not ok
FetchFailed(k, error, jitter) ==
    /\ Quiet
    /\ fetchTasks[k].phase = "fetching"
    /\ Apply(fetchCatch(Cur, k, error, jitter))
    /\ pushCount' = IF error.name = "AuthenticationError" THEN 0 ELSE pushCount
    /\ UNCHANGED <<sse, stream, clientVars, subSnap, attemptLog>>

\* reader.read() of the request in slot k yields a chunk
FetchRead(k, chunk, maxClock) ==
    /\ Quiet
    /\ fetchTasks[k].phase = "reading"
    /\ clock < maxClock
    /\ LET W == readChunk(Cur, k, chunk)
       IN  /\ Apply(W)
           /\ pushCount' = IF W.clock # clock THEN pushCount + 1 ELSE pushCount
    /\ UNCHANGED <<sse, stream, clientVars, subSnap, attemptLog>>

StreamEnded == Err("Error", "Stream ended unexpectedly")

\* reader.read() of the request in slot k reports the end of the stream
\* (254-257); a read that rejects ends the same way with another message
FetchEnded(k, jitter) ==
    /\ Quiet
    /\ fetchTasks[k].phase = "reading"
    /\ Apply(fetchCatch(Cur, k, StreamEnded, jitter))
    /\ UNCHANGED <<sse, stream, clientVars, histVars>>

\* the EventSource's connection is established
ESOpen ==
    /\ Quiet
    /\ eventSource.readyState = "CONNECTING"
    /\ Apply(esOnOpen(Cur))
    /\ attemptLog' = <<>>
    /\ UNCHANGED <<sse, stream, clientVars, subSnap, pushCount>>

\* the EventSource dispatches a message
ESMessage(data, maxClock) ==
    /\ Quiet
    /\ eventSource.readyState = "OPEN"
    /\ clock < maxClock
    /\ Apply(esOnMessage(Cur, data, <<>>))
    /\ pushCount' = IF HasConnection(Cur) THEN pushCount + 1 ELSE pushCount
    /\ UNCHANGED <<sse, stream, clientVars, subSnap, attemptLog>>

\* the connection of the EventSource breaks: the browser retries by itself
ESLost ==
    /\ Quiet
    /\ eventSource.readyState = "OPEN"
    /\ Apply(esOnError(Cur, FALSE, 0))
    /\ UNCHANGED <<sse, stream, clientVars, histVars>>

\* the browser fails the connection of the EventSource for good
ESFailed(jitter) ==
    /\ Quiet
    /\ eventSource.readyState \in {"CONNECTING", "OPEN"}
    /\ Apply(esOnError(Cur, TRUE, jitter))
    /\ UNCHANGED <<sse, stream, clientVars, histVars>>

\* the i-th pending retry timer fires
TimerFires(i) ==
    /\ Quiet
    /\ i \in 1..Len(pendingTimers)
    /\ LET rest == SubSeq(pendingTimers, 1, i - 1)
                   \o SubSeq(pendingTimers, i + 1, Len(pendingTimers))
           W == [Cur EXCEPT !.pendingTimers = rest,
                            !.retryTimeout = IF @ = "pending" /\ i = Len(pendingTimers)
                                             THEN "done" ELSE @]
       IN  Apply(retryTimerFired(W))
    /\ attemptLog' = Append(attemptLog, pendingTimers[i])
    /\ UNCHANGED <<sse, stream, clientVars, subSnap, pushCount>>

(* ------------------- the life of useSSEWithSharedWorker ---------------- *)
\* every event client c has been sent so far, handled or still on its port
\* (the handle drops none while it holds fewer than MAX_EVENTS)
SentEvents(c) == hook[c].events \o EventsOf(port[c])

\* the effect's new SharedWorker(workerPath) (59-66): self.onconnect runs
HookAttach(c) ==
    /\ Quiet
    /\ pc[c] = "unmounted"
    /\ Apply(handleConnect(Cur, c))
    /\ pc' = [pc EXCEPT ![c] = "attached"]
    /\ UNCHANGED <<sse, stream, hook, histVars>>

\* the effect's SUBSCRIBE (117-123)
HookSubscribe(c) ==
    /\ Quiet
    /\ pc[c] = "attached"
    /\ Apply(subscribeClient(Cur, c))
    /\ pc' = [pc EXCEPT ![c] = "subscribed"]
    /\ subSnap' = [subSnap EXCEPT ![c] =
                      [pos |-> Len(SentEvents(c)), snap |-> currentConnection.events]]
    /\ UNCHANGED <<sse, stream, hook, attemptLog, pushCount>>

\* the effect's CONNECT (125-129), and the CONNECT of the effect that
\* follows the url (157-164), which runs after it on mount
HookConnect(c, url, options, jitter) ==
    /\ Quiet
    /\ pc[c] \in {"subscribed", "connecting"}
    /\ Apply(abortSettled(connect(Cur, url, options), jitter))
    /\ pc' = [pc EXCEPT ![c] = IF @ = "subscribed" THEN "connecting" ELSE "mounted"]
    /\ IF HasConnection(Cur) /\ currentConnection.url = url
       THEN UNCHANGED <<attemptLog, pushCount>>
       ELSE attemptLog' = <<>> /\ pushCount' = 0
    /\ UNCHANGED <<sse, stream, hook, subSnap>>

\* close() (166-173): DISCONNECT to the worker, then setStatus('closed');
\* the user may call it whatever the port still holds
Close(c, jitter) ==
    /\ pc[c] = "mounted"
    /\ Apply(abortSettled(disconnect(Cur), jitter))
    /\ hook' = [hook EXCEPT ![c].status = "closed"]
    /\ attemptLog' = <<>>
    /\ pushCount' = 0
    /\ UNCHANGED <<sse, stream, pc, subSnap>>

\* reconnect() (175-181): RECONNECT to the worker
HookReconnect(c, jitter) ==
    /\ Quiet
    /\ pc[c] = "mounted"
    /\ Apply(abortSettled(reconnect(Cur), jitter))
    /\ attemptLog' = <<>>
    /\ pushCount' = 0
    /\ UNCHANGED <<sse, stream, clientVars, subSnap>>

\* the effect's cleanup (138-153): UNSUBSCRIBE; the port stays open
HookCleanup(c) ==
    /\ Quiet
    /\ pc[c] = "mounted"
    /\ Apply(unsubscribeClient(Cur, c))
    /\ pc' = [pc EXCEPT ![c] = "unmounted-again"]
    /\ UNCHANGED <<sse, stream, hook, histVars>>

\* port.onmessage of the handle: the oldest notification on the port
Receive(c) ==
    /\ port[c] # <<>>
    /\ hook' = [hook EXCEPT ![c] = onmessage(@, Head(port[c]))]
    /\ port' = [port EXCEPT ![c] = Tail(@)]
    /\ UNCHANGED <<clients, currentConnection, eventSource, fetchTasks, fetchController,
                   retryTimeout, pendingTimers, retryAttempt, clock, sse, stream, pc, histVars>>

(* --------------------------- specifications ---------------------------- *)
\* the worker after its constructor (the field initialisers, 13-32)
NewWorker ==
    [clients |-> <<>>, currentConnection |-> NoConnection,
     eventSource |-> NoEventSource, fetchTasks |-> [k \in Slots |-> NoTask],
     fetchController |-> 0, retryTimeout |-> "null", pendingTimers |-> <<>>,
     retryAttempt |-> 0, clock |-> 0, port |-> [c \in Clients |-> <<>>],
     aborted |-> 0, ok |-> TRUE]

\* the variables of the worker hold the state W
Start(W) ==
    /\ clients = W.clients
    /\ currentConnection = W.currentConnection
    /\ eventSource = W.eventSource
    /\ fetchTasks = W.fetchTasks
    /\ fetchController = W.fetchController
    /\ retryTimeout = W.retryTimeout
    /\ pendingTimers = W.pendingTimers
    /\ retryAttempt = W.retryAttempt
    /\ clock = W.clock
    /\ port = W.port

\* a page that has not mounted useSSE
NotMounted ==
    [useSSE_FirstRender(Props("auto", 0, NoOptions)) EXCEPT
        !.mounted = FALSE, !.shouldConnect = FALSE]

\* no page has mounted the hook, nothing has happened
InitClients ==
    /\ hook = [c \in Clients |-> HookInit]
    /\ pc = [c \in Clients |-> "unmounted"]
    /\ subSnap = [c \in Clients |-> [pos |-> 0, snap |-> <<>>]]
    /\ attemptLog = <<>>
    /\ pushCount = 0
    /\ sse = NotMounted

InitWorker == Start(NewWorker) /\ InitClients

NoStream == [bytes |-> <<>>, pos |-> 0]

Init == InitWorker /\ stream = NoStream

\* the options, chunks and jitter of the worker's specifications
MainOptions ==
    {Options(h, TRUE, 1, DefaultInitialRetryDelay, DefaultMaxRetryDelay, "none") :
        h \in BOOLEAN}
MainJitter == {0}
DataChunk == Str_data \o <<"1", NL, NL>>
CommentChunk == <<":", NL, NL>>
MainChunks == {DataChunk, CommentChunk}

\* The worker under every order of its clients' messages: c1 is any page
\* that holds a port of the worker.
Next ==
    \/ Attach("c1")
    \/ Subscribe("c1")
    \/ Unsubscribe("c1")
    \/ \E u \in Urls, o \in MainOptions, j \in MainJitter : Connect("c1", u, o, j)
    \/ \E j \in MainJitter : Disconnect("c1", j)
    \/ \E j \in MainJitter : Reconnect("c1", j)
    \/ Deliver("c1")
    \/ \E k \in Slots : FetchOpened(k)
    \/ \E k \in Slots, e \in HttpErrors, j \in MainJitter : FetchFailed(k, e, j)
    \/ \E k \in Slots, ch \in MainChunks : FetchRead(k, ch, MaxEvents)
    \/ \E k \in Slots, j \in MainJitter : FetchEnded(k, j)
    \/ ESOpen
    \/ ESMessage(<<"1">>, MaxEvents)
    \/ ESLost
    \/ \E j \in MainJitter : ESFailed(j)
    \/ \E i \in 1..MaxOutstanding : TimerFires(i)

Spec == Init /\ [][Next]_vars

\* the transports that are live: the fetch requests that have not returned
\* and the EventSource
LiveTransports(W) ==
    Cardinality({k \in Slots : W.fetchTasks[k] # NoTask})
        + (IF W.eventSource # NoEventSource THEN 1 ELSE 0)

\* C3: at most one transport (EventSource or fetch stream, one that is
\* still being opened included) is live at a time, whatever the order of
\* CONNECT, DISCONNECT, RECONNECT, transport callbacks and timer firings.
C3_OneTransport == LiveTransports(Cur) <= 1

\* C10: once the worker has settled in disconnected (no transport, no
\* timer), a CONNECT that names the url of the connection opens a new
\* transport and moves the state to connecting.
C10_FreshConnectOpens ==
    [][\A u \in Urls, o \in MainOptions, j \in MainJitter :
          (/\ Connect("c1", u, o, j)
           /\ currentConnection.url = u
           /\ currentConnection.status = "disconnected"
           /\ LiveTransports(Cur) = 0
           /\ pendingTimers = <<>>)
          => (/\ currentConnection'.status = "connecting"
              /\ (eventSource' # NoEventSource
                     \/ \E k \in Slots : fetchTasks'[k] # NoTask))]_vars

\* the requests of W that the running handler has not aborted
LiveFetches(W) == {k \in Slots : W.fetchTasks[k] # NoTask /\ k # W.aborted}

\* C11: a RECONNECT that finds a connection leaves, when the handler
\* returns, no pending retry timer, retryCount and retryAttempt 0, an empty
\* buffer, no lastEvent, no error, the previous transport cancelled and
\* exactly one new transport attempt, to the url and options of before.
C11_ReconnectResets ==
    [][\A j \in MainJitter :
          (Reconnect("c1", j) /\ HasConnection(Cur))
          => LET W == reconnect(Cur)
                 url == currentConnection.url
                 options == currentConnection.options
             IN  /\ W.pendingTimers = <<>>
                 /\ W.retryTimeout = "null"
                 /\ W.retryAttempt = 0
                 /\ W.currentConnection.retryCount = 0
                 /\ W.currentConnection.events = <<>>
                 /\ W.currentConnection.lastEvent = NoEvent
                 /\ W.currentConnection.error = NoError
                 /\ W.currentConnection.url = url
                 /\ W.currentConnection.options = options
                 /\ IF options.headers
                    THEN /\ W.eventSource = NoEventSource
                         /\ \E k \in Slots :
                               /\ LiveFetches(W) = {k}
                               /\ W.fetchTasks[k].phase = "fetching"
                               /\ W.fetchTasks[k].url = url
                               /\ W.fetchTasks[k].options = options
                    ELSE /\ LiveFetches(W) = {}
                         /\ W.eventSource.readyState = "CONNECTING"
                         /\ W.eventSource.url = url
                         /\ W.eventSource.options = options]_vars

\* C12: whenever the status of the connection is disconnected its buffer
\* is empty and it has no lastEvent; so it is when the connection settles
\* in disconnected after a failure with no retry left.
C12_DisconnectedIsEmpty ==
    (HasConnection(Cur) /\ currentConnection.status = "disconnected")
    => (currentConnection.events = <<>> /\ currentConnection.lastEvent = NoEvent)

\* C13: cancelling a transport on purpose (DISCONNECT, RECONNECT, a CONNECT
\* to another url), while a read of its stream is pending included, is no
\* failure: it sends no ERROR, sets no error status, counts no retry and
\* schedules none.
C13_CancelIsSilent ==
    [][\A u \in Urls, o \in MainOptions, j \in MainJitter :
          (\/ Disconnect("c1", j)
           \/ Reconnect("c1", j)
           \/ (Connect("c1", u, o, j) /\ HasConnection(Cur) /\ currentConnection.url # u))
          => (/\ \A i \in DOMAIN port'["c1"] : port'["c1"][i].type # "ERROR"
              /\ currentConnection'.status # "error"
              /\ currentConnection'.error = NoError
              /\ retryAttempt' = 0
              /\ currentConnection'.retryCount = 0
              /\ Len(pendingTimers') <= Len(pendingTimers))]_vars

\* the page of another tab (c2) attaches, and opens the connection, before
\* the page that runs the hook mounts it
OtherTabAttach == pc["c1"] = "unmounted" /\ Attach("c2")

OtherTabConnect(url, options, jitter) ==
    pc["c1"] = "unmounted" /\ Connect("c2", url, options, jitter)

\* The worker with a page that runs the hook (c1) and the page of another
\* tab (c2) that has attached and may have opened the connection before.
NextHandle ==
    \/ HookAttach("c1")
    \/ HookSubscribe("c1")
    \/ \E o \in MainOptions, j \in MainJitter : HookConnect("c1", "u1", o, j)
    \/ \E j \in MainJitter : Close("c1", j)
    \/ \E j \in MainJitter : HookReconnect("c1", j)
    \/ HookCleanup("c1")
    \/ Receive("c1")
    \/ OtherTabAttach
    \/ \E o \in MainOptions, j \in MainJitter : OtherTabConnect("u1", o, j)
    \/ \E k \in Slots : FetchOpened(k)
    \/ \E k \in Slots, e \in HttpErrors, j \in MainJitter : FetchFailed(k, e, j)
    \/ \E k \in Slots, ch \in MainChunks : FetchRead(k, ch, MaxEvents)
    \/ \E k \in Slots, j \in MainJitter : FetchEnded(k, j)
    \/ ESOpen
    \/ ESMessage(<<"1">>, MaxEvents)
    \/ ESLost
    \/ \E j \in MainJitter : ESFailed(j)
    \/ \E i \in 1..MaxOutstanding : TimerFires(i)

SpecHandle == Init /\ [][NextHandle]_vars

\* C2: a subscriber that sends SUBSCRIBE after K events are buffered is
\* sent exactly those K events next, in buffer order, and is sent no event
\* twice, whether or not it attached while the connection existed.
C2_ReplayExactlyOnce ==
    pc["c1"] \in {"subscribed", "connecting", "mounted"} =>
        LET sent == SentEvents("c1")
            pos == subSnap["c1"].pos
            snap == subSnap["c1"].snap
        IN  /\ Len(sent) >= pos + Len(snap)
            /\ SubSeq(sent, pos + 1, pos + Len(snap)) = snap
            /\ \A i, j \in 1..Len(sent) : i # j => sent[i] # sent[j]

\* C9: once close() has set the handle's state to closed, it stays closed,
\* no transport is live and no retry timer is pending, whatever
\* notification or callback comes, until the page connects again.
C9_ClosedStays ==
    [][(/\ hook["c1"].status = "closed"
        /\ ~(\E j \in MainJitter : HookReconnect("c1", j)))
       => (/\ hook'["c1"].status = "closed"
           /\ eventSource' = NoEventSource
           /\ \A k \in Slots : fetchTasks'[k] = NoTask
           /\ pendingTimers' = <<>>)]_vars

(* ------------------------- retries and backoff ------------------------- *)
\* the options of the retry specification: the defaults with six retries,
\* two retries under a small and the default first delay, a ceiling below
\* and above the first delay, the default backoff and the two custom
\* functions; no retries at all; autoReconnect off; the options of the
\* README's custom retry example with three retries
RetryOptions ==
    {Options(h, TRUE, DefaultMaxRetries + 1, DefaultInitialRetryDelay,
             DefaultMaxRetryDelay, "none") : h \in BOOLEAN}
    \cup {Options(TRUE, TRUE, 3, DefaultInitialRetryDelay, 60000, "linear")}
    \cup {Options(h, TRUE, 2, i, mx, fn) :
             h \in BOOLEAN, i \in {100, DefaultInitialRetryDelay},
             mx \in {500, DefaultMaxRetryDelay}, fn \in {"none", "linear", "huge"}}
    \cup {Options(TRUE, TRUE, 0, DefaultInitialRetryDelay, DefaultMaxRetryDelay, "none"),
          Options(TRUE, FALSE, 2, DefaultInitialRetryDelay, DefaultMaxRetryDelay, "none")}

\* Math.random() * 1000 at the two ends of its range
RetryJitter == {0, JitterRange - 1}

\* A page has mounted the hook: its port is attached and subscribed and
\* its CONNECT has opened the first transport.  From there on only the
\* transport and the timers act.
InitRetry ==
    \E o \in RetryOptions :
        /\ Start(connect(subscribeClient(handleConnect(NewWorker, "c1"), "c1"), "u1", o))
        /\ hook = [c \in Clients |-> HookInit]
        /\ pc = [c \in Clients |-> IF c = "c1" THEN "mounted" ELSE "unmounted"]
        /\ subSnap = [c \in Clients |-> [pos |-> 0, snap |-> <<>>]]
        /\ attemptLog = <<>>
        /\ pushCount = 0
        /\ stream = NoStream
        /\ sse = NotMounted

NextRetry ==
    \/ Receive("c1")
    \/ \E k \in Slots : FetchOpened(k)
    \/ \E k \in Slots, e \in HttpErrors, j \in RetryJitter : FetchFailed(k, e, j)
    \/ \E k \in Slots : FetchRead(k, DataChunk, MaxEvents)
    \/ \E k \in Slots, j \in RetryJitter : FetchEnded(k, j)
    \/ ESOpen
    \/ ESMessage(<<"1">>, MaxEvents)
    \/ ESLost
    \/ \E j \in RetryJitter : ESFailed(j)
    \/ \E i \in 1..MaxOutstanding : TimerFires(i)

SpecRetry == InitRetry /\ [][NextRetry]_vars

\* the last error client c has been sent
RECURSIVE LastError(_, _)
LastError(q, e) ==
    IF q = <<>> THEN e
    ELSE LastError(Tail(q), IF Head(q).type = "ERROR" THEN Head(q).error ELSE e)

ReportedError(c) == LastError(port[c], hook[c].error)

\* the worker is at rest in disconnected: no transport, no timer
Settled ==
    /\ currentConnection.status = "disconnected"
    /\ LiveTransports(Cur) = 0
    /\ pendingTimers = <<>>

NonDecreasing(seq) == \A i \in 1..(Len(seq) - 1) : seq[i] <= seq[i + 1]

\* the delays of the retries since the transport last opened, those
\* started and the one scheduled
RetryDelays == attemptLog \o pendingTimers

\* C21: with retryDelayFn = attempt => attempt * 2000 and maxRetryDelay
\* 60000 the first, second and third consecutive retries wait 2000, 4000
\* and 6000 ms.
C21_LinearDelays ==
    (/\ HasConnection(Cur)
     /\ currentConnection.options.retryDelayFn = "linear"
     /\ currentConnection.options.maxRetryDelay = 60000)
    => \A i \in DOMAIN RetryDelays : i <= 3 => RetryDelays[i] = i * 2000

DefaultBackoff ==
    /\ currentConnection.options.retryDelayFn = "none"
    /\ currentConnection.options.initialRetryDelay = DefaultInitialRetryDelay
    /\ currentConnection.options.maxRetryDelay = DefaultMaxRetryDelay

\* C7: under the default backoff with initialRetryDelay 1000 and
\* maxRetryDelay 30000 the first retry waits a delay in [1000, 2000) (attempt
\* 0) and the sixth consecutive retry a delay in [30000, 31000) (attempt 5).
C7_DefaultBackoffWindows ==
    (DefaultBackoff /\ pendingTimers # <<>>) =>
        LET delay == pendingTimers[Len(pendingTimers)]
        IN  /\ retryAttempt = 1 => (1000 <= delay /\ delay < 2000)
            /\ retryAttempt = 6 => (30000 <= delay /\ delay < 31000)

\* the sixth consecutive retry is scheduled, the first having waited less
\* than 2000
C7_Witness ==
    /\ DefaultBackoff
    /\ retryAttempt = 6
    /\ Len(attemptLog) = 5
    /\ attemptLog[1] = 1999
    /\ pendingTimers = <<30000>>

\* C8: the delay a retry is scheduled with never exceeds maxRetryDelay,
\* under the default backoff and under a caller's retryDelayFn, in the
\* worker and in useSSE.
C8_DelayWithinCeiling ==
    /\ \A i \in 1..Len(pendingTimers) :
          pendingTimers[i] <= currentConnection.options.maxRetryDelay
    /\ \A a \in 0..currentConnection.options.maxRetries, j \in RetryJitter :
          useSSE_calculateRetryDelay(a, currentConnection.options.initialRetryDelay,
              currentConnection.options.maxRetryDelay,
              currentConnection.options.retryDelayFn, j)
            <= currentConnection.options.maxRetryDelay

\* a retry is scheduled at the ceiling although the caller's function
\* asked for more
C8_Witness ==
    /\ currentConnection.options.retryDelayFn = "huge"
    /\ CustomDelay("huge", retryAttempt - 1) > currentConnection.options.maxRetryDelay
    /\ pendingTimers = <<currentConnection.options.maxRetryDelay>>

(* --------------------------- the event buffer --------------------------- *)
\* A page has attached without subscribing and its CONNECT has opened an
\* EventSource; the server sends more events than the buffer holds, and
\* RECONNECT empties the buffer in between.
InitBuffer ==
    /\ Start(connect(handleConnect(NewWorker, "c1"), "u1",
                     Options(FALSE, TRUE, DefaultMaxRetries, DefaultInitialRetryDelay,
                             DefaultMaxRetryDelay, "none")))
    /\ InitClients
    /\ stream = NoStream

NextBuffer ==
    \/ ESOpen
    \/ ESMessage(<<"1">>, MAX_EVENTS + MaxOverflow)
    \/ Reconnect("c1", 0)

SpecBuffer == InitBuffer /\ [][NextBuffer]_vars

\* C6: the buffer never holds more than 100 events, and after N pushes
\* since it was last emptied it holds the last min(N, 100) pushed events,
\* oldest first (the k-th event pushed carries timestamp k).
C6_BufferHoldsLatest ==
    LET events == currentConnection.events
        n == Min(pushCount, MAX_EVENTS)
    IN  /\ Len(events) <= MAX_EVENTS
        /\ Len(events) = n
        /\ \A i \in 1..n : events[i].timestamp = clock - n + i

\* more events than the buffer holds have been pushed since a RECONNECT
\* emptied it, and the oldest of them are gone
C6_Witness ==
    /\ pushCount > MAX_EVENTS
    /\ clock > pushCount
    /\ Len(currentConnection.events) = MAX_EVENTS
    /\ currentConnection.events[1].timestamp = clock - MAX_EVENTS + 1
    /\ currentConnection.lastEvent = currentConnection.events[MAX_EVENTS]

(* --------------------------- the frame decoder -------------------------- *)
\* the lines a server's stream is made of
StreamLines ==
    {Str_data \o <<"1", NL>>, Str_data \o <<"2", NL>>, Str_event \o <<"t", NL>>,
     Str_id \o <<"7", NL>>, <<NL>>}

RECURSIVE Concat(_)
Concat(ss) == IF ss = <<>> THEN <<>> ELSE Head(ss) \o Concat(Tail(ss))

\* the byte streams of up to MaxLines lines
Streams == {Concat(ls) : ls \in UNION {[1..n -> StreamLines] : n \in 0..MaxLines}}

\* A page has attached and its CONNECT with headers has been answered: the
\* read loop is about to read the stream, which arrives cut into chunks at
\* any places.
InitDecode ==
    /\ \E bytes \in Streams : stream = [bytes |-> bytes, pos |-> 0]
    /\ Start(fetchOpened(connect(handleConnect(NewWorker, "c1"), "u1",
                 Options(TRUE, TRUE, DefaultMaxRetries, DefaultInitialRetryDelay,
                         DefaultMaxRetryDelay, "none")), 1))
    /\ InitClients

\* reader.read() of the request in slot k yields the next n bytes
StreamRead(k, n) ==
    /\ Quiet
    /\ fetchTasks[k].phase = "reading"
    /\ stream.pos + n <= Len(stream.bytes)
    /\ LET W == readChunk(Cur, k, SubSeq(stream.bytes, stream.pos + 1, stream.pos + n))
       IN  /\ Apply(W)
           /\ pushCount' = IF W.clock # clock THEN pushCount + 1 ELSE pushCount
    /\ stream' = [stream EXCEPT !.pos = @ + n]
    /\ UNCHANGED <<sse, clientVars, subSnap, attemptLog>>

NextDecode == \E k \in Slots, n \in 1..Len(stream.bytes) : StreamRead(k, n)

SpecDecode == InitDecode /\ [][NextDecode]_vars

\* what an event says: its type, data and id
Frames(events) ==
    [i \in 1..Len(events) |->
        [type |-> events[i].type, data |-> events[i].data, id |-> events[i].id]]

\* the events of a stream that arrives as one chunk
WholeDecode(bytes) ==
    LET d == DecodePass(<<>>, bytes)
    IN  IF d.emit THEN <<[type |-> d.type, data |-> d.data, id |-> d.id]>> ELSE <<>>

\* C1: however the stream is cut into chunks, the events decoded from it
\* are the same (type, data, id and count): once the whole stream has been
\* read they are the events of the stream read as one chunk.
C1_ChunkInvariant ==
    stream.pos = Len(stream.bytes)
        => Frames(currentConnection.events) = WholeDecode(stream.bytes)

(* ------------------------- the useSSE hook alone ------------------------ *)
SSEStep(h) ==
    /\ sse' = h
    /\ UNCHANGED <<workerVars, stream, clientVars, histVars>>

\* the component that calls useSSE(url, options) mounts: the first render
\* and its effects, in the order of the source
SSEMount(props) ==
    /\ ~sse.mounted
    /\ LET h0 == useSSE_FirstRender(props)
           h1 == useSSE_autoConnectEffect(h0)
           h2 == useSSE_connectEffect(h1, h0.shouldConnect)
       IN  SSEStep(useSSE_commit(h0, h2))

\* the callback of the auto-connect timer (139-144)
SSEAutoConnectTimer ==
    /\ sse.autoConnectTimeout = "pending"
    /\ SSEStep(useSSE_commit(sse, [sse EXCEPT !.autoConnectTimeout = "fired",
                                              !.shouldConnect = TRUE,
                                              !.status = "connecting"]))

\* connect() (105-110)
SSEConnect ==
    /\ sse.mounted
    /\ SSEStep(useSSE_commit(sse, [sse EXCEPT !.shouldConnect = TRUE,
                                              !.status = "connecting",
                                              !.connectCalled = TRUE]))

\* close() (113-123)
SSEClose ==
    /\ sse.mounted
    /\ LET h1 == [sse EXCEPT !.shouldReconnect = FALSE, !.shouldConnect = FALSE]
           h2 == useSSE_cleanup(h1)
       IN  SSEStep(useSSE_commit(sse, [h2 EXCEPT !.status = "closed", !.events = <<>>,
                                                 !.lastEvent = NoEvent, !.error = NoError,
                                                 !.retryCount = 0]))

\* reconnect() (91-102)
SSEReconnect ==
    /\ sse.mounted
    /\ SSEStep([useSSE_cleanup(sse) EXCEPT !.retryAttempt = 0, !.retryCount = 0,
                                           !.error = NoError, !.shouldReconnect = TRUE,
                                           !.status = "connecting"])

\* await fetch resolved with an ok response that has a body (210-230)
SSEFetchOpened ==
    /\ sse.fetch = "fetching"
    /\ SSEStep([sse EXCEPT !.status = "connected", !.retryAttempt = 0,
                           !.retryCount = 0, !.fetch = "reading"])

\* fetch() rejects or the status is not ok; or a read of the stream rejects
SSEFetchFailed(error, jitter) ==
    /\ sse.fetch = "fetching"
    /\ SSEStep(useSSE_fetchFailed(sse, error, jitter))

SSEReadFailed(jitter) ==
    /\ sse.fetch = "reading"
    /\ SSEStep(useSSE_fetchFailed(sse, Err("TypeError", "network error"), jitter))

\* reader.read() resolved with a chunk (255-310)
SSEFetchRead(chunk, maxClock) ==
    /\ sse.fetch = "reading"
    /\ sse.clock < maxClock
    /\ LET d == DecodePass(sse.buffer, chunk)
           h1 == [sse EXCEPT !.buffer = d.buffer]
       IN  SSEStep(IF d.emit THEN useSSE_pushEvent(h1, d.type, d.data, d.id) ELSE h1)

\* reader.read() resolved with done (249-253): the loop is left and
\* connectWithFetch returns
SSEFetchDone ==
    /\ sse.fetch = "reading"
    /\ SSEStep([sse EXCEPT !.fetch = "none", !.buffer = <<>>])

\* eventSource.onopen (381-385)
SSEOpen ==
    /\ sse.eventSource = "CONNECTING"
    /\ SSEStep([sse EXCEPT !.status = "connected", !.retryAttempt = 0,
                           !.retryCount = 0, !.eventSource = "OPEN"])

\* eventSource.onmessage (387-422)
SSEMessage(data, maxClock) ==
    /\ sse.eventSource = "OPEN"
    /\ sse.clock < maxClock
    /\ SSEStep(useSSE_pushEvent(sse, Str_message, ParseData(data), Undefined))

\* eventSource.onerror (424-450) while the browser reconnects by itself,
\* and when it has given the connection up
SSELost ==
    /\ sse.eventSource = "OPEN"
    /\ SSEStep(useSSE_esOnError(sse, FALSE, 0))

SSEFailed(jitter) ==
    /\ sse.eventSource \in {"CONNECTING", "OPEN"}
    /\ SSEStep(useSSE_esOnError(sse, TRUE, jitter))

\* the callback of a retry timer (336-341, 436-441)
SSERetryTimer ==
    /\ sse.timers # <<>>
    /\ LET h1 == [sse EXCEPT !.timers = Tail(@),
                             !.retryTimeout = IF Len(sse.timers) = 1 THEN "fired" ELSE @]
       IN  SSEStep(IF ~h1.shouldReconnect THEN h1
                   ELSE IF h1.props.options.headers THEN useSSE_connectWithFetch(h1)
                   ELSE [h1 EXCEPT !.status = "connecting"])

\* the props a page may mount useSSE with
AutoConnectDelays == {0, 500}
UseSSEProps ==
    {Props(m, d, o) : m \in {"auto", "manual"}, d \in AutoConnectDelays, o \in MainOptions}

NextUseSSE ==
    \/ \E props \in UseSSEProps : SSEMount(props)
    \/ SSEAutoConnectTimer
    \/ SSEConnect
    \/ SSEClose
    \/ SSEReconnect
    \/ SSEFetchOpened
    \/ \E e \in HttpErrors, j \in MainJitter : SSEFetchFailed(e, j)
    \/ \E j \in MainJitter : SSEReadFailed(j)
    \/ \E ch \in MainChunks : SSEFetchRead(ch, MaxEvents)
    \/ SSEFetchDone
    \/ SSEOpen
    \/ SSEMessage(<<"1">>, MaxEvents)
    \/ SSELost
    \/ \E j \in MainJitter : SSEFailed(j)
    \/ SSERetryTimer

SpecUseSSE == Init /\ [][NextUseSSE]_vars

\* C14: the clean end of the response stream of a transport with headers is
\* a failure: the status becomes error and, with autoReconnect on and
\* retries left, a retry is scheduled; in the worker (FetchEnded) and in
\* useSSE (SSEFetchDone) alike.
C14_StreamEndIsFailure ==
    [][/\ \A k \in Slots, j \in MainJitter :
             (/\ FetchEnded(k, j)
              /\ HasConnection(Cur)
              /\ fetchTasks[k].options.autoReconnect
              /\ retryAttempt < fetchTasks[k].options.maxRetries)
             => (/\ currentConnection'.status = "error"
                 /\ Len(pendingTimers') = Len(pendingTimers) + 1)
       /\ (/\ SSEFetchDone
           /\ sse.shouldReconnect
           /\ sse.retryAttempt < sse.props.options.maxRetries)
          => (/\ sse'.status = "error"
              /\ sse'.timers # <<>>)]_vars

\* C17: close() on a session handle, of useSSEWithSharedWorker (Close) and
\* of useSSE (SSEClose) alike, leaves the handle with no events, no
\* lastEvent, no error and retryCount 0.
C17_CloseClears ==
    [][/\ \A j \in MainJitter :
             Close("c1", j)
             => (/\ hook'["c1"].events = <<>>
                 /\ hook'["c1"].lastEvent = NoEvent
                 /\ hook'["c1"].error = NoError
                 /\ hook'["c1"].retryCount = 0)
       /\ SSEClose
          => (/\ sse'.events = <<>>
              /\ sse'.lastEvent = NoEvent
              /\ sse'.error = NoError
              /\ sse'.retryCount = 0)]_vars

\* C18: a status of connected goes with no error: in the worker's
\* connection record, in the handle of useSSEWithSharedWorker and in the
\* handle of useSSE the error is null once a connection has succeeded.
C18_ConnectedHasNoError ==
    /\ (HasConnection(Cur) /\ currentConnection.status = "connected")
       => currentConnection.error = NoError
    /\ hook["c1"].status = "connected" => hook["c1"].error = NoError
    /\ sse.status = "connected" => sse.error = NoError

\* C19: useSSE in auto mode with autoConnectDelay d > 0 opens no transport
\* before the delay timer has fired (the consumer not having called
\* connect() meanwhile).
C19_NoTransportBeforeDelay ==
    (/\ sse.mounted
     /\ sse.props.connectionMode = "auto"
     /\ sse.props.autoConnectDelay > 0
     /\ sse.autoConnectTimeout = "pending"
     /\ ~sse.connectCalled)
    => useSSE_transports(sse) = 0

(* ---------------------- both hooks in manual mode ---------------------- *)
\* A page mounts useSSE, and a component of it (c1) useSSEWithSharedWorker,
\* each with connectionMode 'manual'; the handle of useSSEWithSharedWorker
\* has no connect() to call.
ManualProps == {Props("manual", d, o) : d \in AutoConnectDelays, o \in MainOptions}

NextManual ==
    \/ \E props \in ManualProps : SSEMount(props)
    \/ SSEConnect
    \/ SSEClose
    \/ SSEReconnect
    \/ SSEFetchOpened
    \/ \E e \in HttpErrors, j \in MainJitter : SSEFetchFailed(e, j)
    \/ \E j \in MainJitter : SSEReadFailed(j)
    \/ \E ch \in MainChunks : SSEFetchRead(ch, MaxEvents)
    \/ SSEFetchDone
    \/ SSEOpen
    \/ SSEMessage(<<"1">>, MaxEvents)
    \/ SSELost
    \/ \E j \in MainJitter : SSEFailed(j)
    \/ SSERetryTimer
    \/ HookAttach("c1")
    \/ HookSubscribe("c1")
    \/ \E props \in ManualProps, j \in MainJitter :
           HookConnect("c1", "u1", props.options, j)
    \/ Receive("c1")

SpecManual == Init /\ [][NextManual]_vars

\* C20: with connectionMode 'manual' neither hook opens a transport or
\* sends a CONNECT to the worker until the consumer calls connect().
C20_ManualWaits ==
    /\ (sse.props.connectionMode = "manual" /\ ~sse.connectCalled)
       => useSSE_transports(sse) = 0
    /\ ~HasConnection(Cur)
    /\ LiveTransports(Cur) = 0

(* --------------------------- late subscribers -------------------------- *)
\* Three pages run useSSEWithSharedWorker on one url; the first two mount
\* before the third (c3) does, and up to MaxBacklog + 1 events arrive.
LateOptions ==
    Options(FALSE, TRUE, DefaultMaxRetries, DefaultInitialRetryDelay,
            DefaultMaxRetryDelay, "none")

LateAttach ==
    /\ pc["c1"] = "mounted"
    /\ pc["c2"] = "mounted"
    /\ HookAttach("c3")

NextLate ==
    \/ \E c \in {"c1", "c2"} : HookAttach(c)
    \/ LateAttach
    \/ \E c \in Clients : HookSubscribe(c)
    \/ \E c \in Clients : HookConnect(c, "u1", LateOptions, 0)
    \/ \E c \in Clients : Receive(c)
    \/ ESOpen
    \/ ESMessage(<<"1">>, MaxBacklog + 1)

SpecLate == Init /\ [][NextLate]_vars

\* no event of the sequence comes before one that was decoded earlier
InDecodeOrder(events) ==
    \A i, j \in DOMAIN events : i < j => events[i].timestamp <= events[j].timestamp

\* C15: events reach the subscribers in the order they were decoded: of
\* two events of one connection no client is sent the later one before
\* the earlier one, and the worker's buffer holds them in that order.
C15_DecodeOrder ==
    /\ InDecodeOrder(currentConnection.events)
    /\ \A c \in Clients : InDecodeOrder(SentEvents(c))

\* C16: with two subscribers on a connected worker that holds MaxBacklog
\* (3) events, a third client that sends SUBSCRIBE is sent those events
\* once each and no other EVENT until a new event is decoded, which all
\* three are sent: c3 has been sent the events of the buffer, once each
\* and nothing else, and the other two every event decoded since.
C16_LateSubscriber ==
    (/\ pc["c3"] \in {"subscribed", "connecting", "mounted"}
     /\ Len(subSnap["c3"].snap) = MaxBacklog
     /\ \A c \in {"c1", "c2"} : pc[c] = "mounted")
    => /\ SentEvents("c3") = currentConnection.events
       /\ \A c \in {"c1", "c2"} :
              \A i \in (MaxBacklog + 1)..Len(currentConnection.events) :
                  \E j \in DOMAIN SentEvents(c) :
                      SentEvents(c)[j] = currentConnection.events[i]

\* C22: a client is in the worker's registry from its attach until its
\* detach only: once the hook's cleanup has run (unmount, or a new url) the
\* client's entry is gone.
C22_DetachedOnCleanup ==
    pc["c1"] = "unmounted-again" => "c1" \notin DOMAIN clients

\* C23: in useSSE reconnect() closes the transport there is and opens a
\* fresh one to the url (no later step could: reconnect() has cleared the
\* timers), on the EventSource path and on the fetch path.
C23_ReconnectReopens ==
    [][SSEReconnect
       => (/\ sse.fetch = "reading" => sse'.fetch = "fetching"
           /\ sse.eventSource = "OPEN" => sse'.eventSource = "CONNECTING"
           /\ useSSE_transports(sse') = 1)]_vars

\* C24: in useSSE on the EventSource path, when the backoff timer of a
\* retry fires (autoReconnect on) a new transport is opened: the hook is
\* not left in connecting with no transport.
C24_RetryReopens ==
    [][(SSERetryTimer /\ ~sse.props.options.headers /\ sse.shouldReconnect)
       => (/\ sse'.status = "connecting"
           /\ sse'.eventSource = "CONNECTING")]_vars

\* C26: on the EventSource transport every connection loss is handled by
\* the state machine, in the worker and in useSSE: the EventSource is
\* closed, the status becomes error and either the retry counter goes up by
\* one and a retry is scheduled, or the status settles in disconnected.
C26_EveryLossHandled ==
    [][/\ (ESLost \/ \E j \in MainJitter : ESFailed(j))
          => (/\ eventSource' = NoEventSource
              /\ \/ (/\ currentConnection'.status = "error"
                     /\ retryAttempt' = retryAttempt + 1
                     /\ Len(pendingTimers') = Len(pendingTimers) + 1)
                 \/ (/\ currentConnection'.status = "disconnected"
                     /\ pendingTimers' = pendingTimers))
       /\ (SSELost \/ \E j \in MainJitter : SSEFailed(j))
          => (/\ sse'.eventSource \notin {"CONNECTING", "OPEN"}
              /\ \/ (/\ sse'.status = "error"
                     /\ sse'.retryAttempt = sse.retryAttempt + 1
                     /\ Len(sse'.timers) = Len(sse.timers) + 1)
                 \/ (/\ sse'.status = "disconnected"
                     /\ sse'.timers = sse.timers))]_vars

\* C29: after close() no notification of the worker, in flight or sent
\* later, changes the handle's events, lastEvent, error, retryCount or
\* status; nor does any callback change those of a closed useSSE handle,
\* until the consumer connects again.
C29_ClosedIgnoresNotifications ==
    [][/\ (hook["c1"].status = "closed" /\ Receive("c1"))
          => hook'["c1"] = hook["c1"]
       /\ (sse.status = "closed" /\ ~SSEConnect /\ ~SSEReconnect)
          => (/\ sse'.status = sse.status
              /\ sse'.events = sse.events
              /\ sse'.lastEvent = sse.lastEvent
              /\ sse'.error = sse.error
              /\ sse'.retryCount = sse.retryCount)]_vars

\* C25: a frame read from a fetch stream whose connection was cancelled
\* (DISCONNECT since, or the connection is now to another url) is discarded:
\* it is not appended to the event buffer and no client is sent an EVENT.
C25_CancelledFrameDiscarded ==
    [][\A k \in Slots :
         (/\ HasConnection(Cur)
          /\ \/ currentConnection.status = "disconnected"
             \/ fetchTasks[k].url # currentConnection.url
          /\ \E chunk \in MainChunks : FetchRead(k, chunk, MaxEvents))
         => (/\ currentConnection'.events = currentConnection.events
             /\ currentConnection'.lastEvent = currentConnection.lastEvent
             /\ \A c \in Clients : EventsOf(port'[c]) = EventsOf(port[c]))]_vars

\* ---------------------------------------------------------------------
\* Two pages on one worker: each attaches, subscribes and unsubscribes in
\* any order while the first one's connection opens, receives, fails and is
\* retried.
\* ---------------------------------------------------------------------
Tabs == {"c1", "c2"}

NextTabs ==
    \/ \E c \in Tabs : Attach(c)
    \/ \E c \in Tabs : Subscribe(c)
    \/ \E c \in Tabs : Unsubscribe(c)
    \/ \E c \in Tabs : Deliver(c)
    \/ \E o \in MainOptions, j \in MainJitter : Connect("c1", "u1", o, j)
    \/ \E k \in Slots : FetchOpened(k)
    \/ \E k \in Slots : FetchRead(k, DataChunk, MaxEvents)
    \/ \E k \in Slots, j \in MainJitter : FetchEnded(k, j)
    \/ ESOpen
    \/ ESMessage(<<"1">>, MaxEvents)
    \/ \E j \in MainJitter : ESFailed(j)
    \/ \E i \in 1..MaxOutstanding : TimerFires(i)

SpecTabs == Init /\ [][NextTabs]_vars

\* C27: a client that attaches while a connection record exists is
\* registered with subscribed = false and is sent, in this order, CONNECTED,
\* STATUS with the current status, RETRY_COUNT with the current count and
\* then EVENT with the last event if there is one; with no connection
\* record it is sent nothing.  Nobody else is sent anything.
C27_AttachGreeting ==
    [][\A c \in Tabs :
         (c \notin DOMAIN clients /\ c \in DOMAIN clients')
         => (/\ ~clients'[c]
             /\ \A d \in DOMAIN clients : clients'[d] = clients[d]
             /\ \A d \in Clients \ {c} : port'[d] = port[d]
             /\ port'[c] = port[c] \o
                  (IF HasConnection(Cur)
                   THEN <<MsgConnected(currentConnection.url),
                          MsgStatus(currentConnection.status),
                          MsgRetryCount(currentConnection.retryCount)>>
                        \o (IF currentConnection.lastEvent # NoEvent
                            THEN <<MsgEvent(currentConnection.lastEvent)>>
                            ELSE <<>>)
                   ELSE <<>>))]_vars

\* A second page has just attached to a connection that holds an event and
\* is waiting for a retry: its port holds the four notifications.
C27_Witness ==
    /\ "c2" \in DOMAIN clients
    /\ ~clients["c2"]
    /\ HasConnection(Cur)
    /\ currentConnection.retryCount = 1
    /\ currentConnection.lastEvent # NoEvent
    /\ port["c2"] = <<MsgConnected("u1"), MsgStatus("error"), MsgRetryCount(1),
                      MsgEvent(currentConnection.lastEvent)>>

\* C28: UNSUBSCRIBE only flips the client's subscribed flag: the client
\* stays in the registry and the connection, its buffer, the retry counter,
\* the transports, the ports and the other clients' flags are unchanged; and
\* while a registered client is not subscribed (it has unsubscribed, or has
\* not subscribed yet) no step but its own SUBSCRIBE adds to its port.
C28_UnsubscribeOnly ==
    [][\A c \in Tabs :
         /\ Unsubscribe(c)
            => (/\ clients' = [clients EXCEPT ![c] = FALSE]
                /\ UNCHANGED <<currentConnection, eventSource, fetchTasks,
                               fetchController, retryTimeout, pendingTimers,
                               retryAttempt, port>>)
         /\ (/\ c \in DOMAIN clients
             /\ ~clients[c]
             /\ ~Subscribe(c))
            => (/\ c \in DOMAIN clients'
                /\ ~clients'[c]
                /\ \/ port'[c] = port[c]
                   \/ port[c] # <<>> /\ port'[c] = Tail(port[c]))]_vars

\* A page has unsubscribed and the connection has gone on without it: the
\* other page has been sent notifications, the page itself none.
C28_Witness ==
    /\ "c1" \in DOMAIN clients
    /\ ~clients["c1"]
    /\ port["c1"] = <<>>
    /\ "c2" \in DOMAIN clients
    /\ clients["c2"]
    /\ HasConnection(Cur)
    /\ currentConnection.events # <<>>
    /\ \E i \in DOMAIN port["c2"] : port["c2"][i].type = "EVENT"

\* C30: every time the worker enters connected (a transport opened, fetch
\* or EventSource) retryCount and retryAttempt are 0 afterwards and every
\* subscribed client is sent STATUS connected and then RETRY_COUNT 0.
C30_ConnectedResets ==
    [][(/\ HasConnection(Cur)
        /\ currentConnection'.status = "connected"
        /\ \/ currentConnection.status # "connected"
           \/ ESOpen
           \/ \E k \in Slots : FetchOpened(k))
       => (/\ currentConnection'.retryCount = 0
           /\ retryAttempt' = 0
           /\ \A c \in DOMAIN clients :
                clients[c] => port'[c] = port[c] \o <<MsgStatus("connected"),
                                                      MsgRetryCount(0)>>)]_vars

\* The worker is connected again after a failed attempt: the counters are
\* back at 0 and the client's port ends with the two notifications.
C30_Witness ==
    /\ HasConnection(Cur)
    /\ currentConnection.status = "connected"
    /\ currentConnection.error # NoError
    /\ currentConnection.retryCount = 0
    /\ retryAttempt = 0
    /\ port["c1"] = <<MsgStatus("connected"), MsgRetryCount(0)>>

\* C31: the subscribed clients are sent exactly one STATUS for every change
\* of the connection's status and none when it did not change (but for the
\* re-announcement of a same-url CONNECT and the greeting of SUBSCRIBE): a
\* CONNECT to a new url sends a single STATUS connecting, and a command or
\* callback that leaves the status as it was sends no STATUS.
C31_OneStatusPerChange ==
    [][("c1" \in DOMAIN clients /\ clients["c1"] /\ port["c1"] = <<>>)
       => LET sent == port'["c1"]
              connecting == {i \in DOMAIN sent : sent[i] = MsgStatus("connecting")}
              statuses == {i \in DOMAIN sent : sent[i].type = "STATUS"}
          IN  /\ \A u \in Urls, o \in MainOptions, j \in MainJitter :
                   (/\ Connect("c1", u, o, j)
                    /\ (HasConnection(Cur) => currentConnection.url # u))
                   => Cardinality(connecting) = 1
              /\ (/\ HasConnection(Cur)
                  /\ currentConnection' = currentConnection
                  /\ ~ \E u \in Urls, o \in MainOptions, j \in MainJitter :
                         Connect("c1", u, o, j))
                 => statuses = {}]_vars

\* C32: when a retry timer fires and the retry attempt starts, the status
\* becomes connecting and STATUS connecting is broadcast, on the fetch
\* transport and on the EventSource transport alike.
C32_RetryIsConnecting ==
    [][\A i \in 1..MaxOutstanding :
         (TimerFires(i) /\ HasConnection(Cur))
         => (/\ currentConnection'.status = "connecting"
             /\ ("c1" \in DOMAIN clients /\ clients["c1"])
                => \E n \in DOMAIN port'["c1"] :
                      port'["c1"][n] = MsgStatus("connecting"))]_vars

\* C33: a CONNECT that names the url of a connection that is connected or
\* connecting opens no transport, cancels nothing and leaves the status, the
\* buffer, lastEvent, the error, the retry counter, the stored options and
\* any pending timer as they were; it only broadcasts CONNECTED and the
\* current STATUS.
C33_SameUrlConnect ==
    [][\A u \in Urls, o \in MainOptions, j \in MainJitter :
         (/\ Connect("c1", u, o, j)
          /\ HasConnection(Cur)
          /\ currentConnection.url = u
          /\ currentConnection.status \in {"connected", "connecting"})
         => (/\ UNCHANGED <<clients, currentConnection, eventSource, fetchTasks,
                            fetchController, retryTimeout, pendingTimers,
                            retryAttempt>>
             /\ port'["c1"] = port["c1"] \o
                  (IF clients["c1"]
                   THEN <<MsgConnected(u), MsgStatus(currentConnection.status)>>
                   ELSE <<>>))]_vars

\* A CONNECT to the url of the open connection has just been answered: the
\* client holds the two notifications, the buffer still holds its event
\* and the transport is the one that was open.
C33_Witness ==
    /\ HasConnection(Cur)
    /\ currentConnection.status = "connected"
    /\ currentConnection.events # <<>>
    /\ LiveTransports(Cur) = 1
    /\ port["c1"] = <<MsgConnected(currentConnection.url), MsgStatus("connected")>>

\* C34: a CONNECT to a url other than the connection's cancels the
\* transport and the pending timer there are and then starts afresh: when
\* the handler and the cancellation have settled the record is new (status
\* connecting, empty buffer, no lastEvent, no error, retryCount 0), no timer
\* is pending and the only transport is the one being opened to the new
\* url; nothing of the old connection is left to change the new record.
C34_OtherUrlStartsFresh ==
    [][\A u \in Urls, o \in MainOptions, j \in MainJitter :
         (/\ Connect("c1", u, o, j)
          /\ HasConnection(Cur)
          /\ currentConnection.url # u)
         => (/\ currentConnection' =
                  [url |-> u, options |-> o, status |-> "connecting",
                   events |-> <<>>, lastEvent |-> NoEvent, error |-> NoError,
                   retryCount |-> 0]
             /\ retryAttempt' = 0
             /\ pendingTimers' = <<>>
             /\ \A k \in Slots : fetchTasks'[k] # NoTask => fetchTasks'[k].url = u
             /\ eventSource' # NoEventSource => eventSource'.url = u
             /\ LiveTransports([fetchTasks |-> fetchTasks',
                                eventSource |-> eventSource']) = 1)]_vars

\* C35: the retry counter of a connection is between 0 and maxRetries; a
\* transport failure raises it by exactly 1 when autoReconnect is on and it
\* is below maxRetries and leaves it as it is otherwise; and only a
\* successful open (or a command) sets it back to 0.  (The answer 401,
\* which is never retried, is not counted as a failure here.)
C35_RetryCounter ==
    [][HasConnection(Cur)
       => LET options == currentConnection.options
              count == currentConnection.retryCount
              failure == \/ ESLost
                         \/ \E j \in RetryJitter : ESFailed(j)
                         \/ \E k \in Slots, j \in RetryJitter : FetchEnded(k, j)
                         \/ \E k \in Slots, j \in RetryJitter :
                               FetchFailed(k, Err("Error", "HTTP error! status: 500"), j)
              opened == ESOpen \/ \E k \in Slots : FetchOpened(k)
          IN  /\ currentConnection'.retryCount \in 0..options.maxRetries
              /\ (failure /\ options.autoReconnect /\ count < options.maxRetries)
                 => currentConnection'.retryCount = count + 1
              /\ (failure /\ ~(options.autoReconnect /\ count < options.maxRetries))
                 => currentConnection'.retryCount = count
              /\ (count # 0 /\ currentConnection'.retryCount = 0) => opened]_vars

\* C39: in useSSE a close() followed by connect() restores the configured
\* retry behaviour: whenever a transport fails while options.autoReconnect
\* is true and retries remain, the failure is retried with backoff (status
\* error, a retry timer set) and does not end in disconnected.
C39_ConnectRestoresRetry ==
    [][(/\ sse.connectCalled
        /\ sse.props.options.autoReconnect
        /\ sse.retryAttempt < sse.props.options.maxRetries
        /\ \E j \in MainJitter :
              \/ SSEFailed(j)
              \/ SSEReadFailed(j)
              \/ SSEFetchFailed(Err("Error", "HTTP error! status: 500"), j))
       => (/\ sse'.status = "error"
           /\ sse'.retryCount = sse.retryCount + 1
           /\ Len(sse'.timers) = Len(sse.timers) + 1)]_vars

\* C36: at most one retry timer of the worker is pending at any time, and
\* a pending timer is the one retryTimeout holds, so that disconnect() can
\* cancel it.
C36_OneTimer ==
    /\ Len(pendingTimers) <= 1
    /\ pendingTimers # <<>> => retryTimeout = "pending"

\* C37: whenever the status of the connection is disconnected the worker
\* is idle: no transport is open or being opened and no retry timer is
\* pending.
C37_DisconnectedIsIdle ==
    (HasConnection(Cur) /\ currentConnection.status = "disconnected")
    => (LiveTransports(Cur) = 0 /\ pendingTimers = <<>>)

\* C38: a handle that subscribed before the connection had any event
\* projects the worker's state: once every notification in flight has been
\* delivered its events are the worker's buffer, its lastEvent the worker's
\* lastEvent and its retryCount the worker's retryCount, also after the
\* worker has cleared or reset them.
C38_HandleProjectsWorker ==
    (/\ pc["c1"] = "mounted"
     /\ HasConnection(Cur)
     /\ "c1" \in DOMAIN clients
     /\ clients["c1"]
     /\ subSnap["c1"].pos = 0
     /\ subSnap["c1"].snap = <<>>
     /\ port["c1"] = <<>>)
    => (/\ hook["c1"].events = currentConnection.events
        /\ hook["c1"].lastEvent = currentConnection.lastEvent
        /\ hook["c1"].retryCount = currentConnection.retryCount)

\* ---------------------------------------------------------------------
\* One connection for two pages: c1 is subscribed, c2 only attached, and
\* either of them sends CONNECT, DISCONNECT and RECONNECT.
\* ---------------------------------------------------------------------
InitShared ==
    /\ Start(subscribeClient(handleConnect(handleConnect(NewWorker, "c1"), "c2"), "c1"))
    /\ InitClients
    /\ stream = NoStream

NextShared ==
    \/ \E c \in Tabs, u \in Urls, o \in MainOptions, j \in MainJitter : Connect(c, u, o, j)
    \/ \E c \in Tabs, j \in MainJitter : Disconnect(c, j)
    \/ \E c \in Tabs, j \in MainJitter : Reconnect(c, j)
    \/ \E c \in Tabs : Deliver(c)
    \/ \E k \in Slots : FetchOpened(k)
    \/ \E k \in Slots : FetchRead(k, DataChunk, MaxEvents)
    \/ \E k \in Slots, j \in MainJitter : FetchEnded(k, j)
    \/ ESOpen
    \/ ESMessage(<<"1">>, MaxEvents)
    \/ \E j \in MainJitter : ESFailed(j)
    \/ \E i \in 1..MaxOutstanding : TimerFires(i)

SpecShared == InitShared /\ [][NextShared]_vars

\* C40: the worker holds one connection for all its clients: a DISCONNECT,
\* a RECONNECT or a CONNECT to another url sent by any client, subscribed
\* or not, takes down every transport there was (leaving none, or only the
\* one attempt it starts), and every client subscribed at that moment is
\* sent DISCONNECTED and then STATUS disconnected; the others are sent
\* nothing.
C40_OneConnectionForAll ==
    [][\A c \in Tabs, j \in MainJitter :
         LET teardown == <<MsgDisconnected, MsgStatus("disconnected")>>
             after == [fetchTasks |-> fetchTasks', eventSource |-> eventSource']
             notified ==
                 \A d \in DOMAIN clients :
                    IF clients[d]
                    THEN /\ Len(port'[d]) >= Len(port[d]) + 2
                         /\ SubSeq(port'[d], Len(port[d]) + 1, Len(port[d]) + 2) = teardown
                    ELSE port'[d] = port[d]
         IN  /\ Disconnect(c, j)
                => (notified /\ LiveTransports(after) = 0)
             /\ (HasConnection(Cur)
                 /\ \/ Reconnect(c, j)
                    \/ \E u \in Urls, o \in MainOptions :
                          Connect(c, u, o, j) /\ currentConnection.url # u)
                => (/\ notified
                    /\ LiveTransports(after) = 1
                    /\ \A k \in Slots : fetchTasks'[k].phase # "reading"
                    /\ eventSource'.readyState # "OPEN")]_vars

====
